---- MODULE Spec2Model ----
(***************************************************************************)
(* CertImporter.cpp: a command line tool that looks up, imports or deletes *)
(* one certificate in a machine-wide certificate store.                    *)
(*                                                                         *)
(* The model runs one process invocation after another against the        *)
(* persistent system stores.  Each label of wWinMain and of the three     *)
(* action functions is one action; the file system, the DER decoder and   *)
(* the store provider are the environment.                                *)
(***************************************************************************)
EXTENDS Integers, Sequences, FiniteSets, TLC

VARIABLES
    stores,               \* the system certificate stores: name -> (cert -> copies)
    pc,                   \* position of the running process
    argv,                 \* result of CommandLineToArgvW
    action,               \* wWinMain locals
    storeName,
    actionData,
    actionFn,
    additionalOpenFlags,
    store,                \* HCERTSTORE returned by CertOpenStore
    memblock,             \* addCert: the bytes read from the certificate file
    cert,                 \* PCCERT_CONTEXT local of the running action function
    held,                 \* resources the process has acquired and not released
    calls,                \* native calls made by this invocation
    exitCode,             \* value returned by wWinMain
    stores0,              \* the stores as they were when the invocation started
    imported,             \* certificates imported by add and not removed by delete
    deletions             \* names delete has removed an entry for, with no add since

vars == <<stores, pc, argv, action, storeName, actionData, actionFn,
          additionalOpenFlags, store, memblock, cert, held, calls, exitCode,
          stores0, imported, deletions>>

-----------------------------------------------------------------------------
(* Bounds *)

\* Largest number of command line arguments an invocation passes.
MaxArgc == 3

-----------------------------------------------------------------------------
(* Program constants *)

STATUS_BAD_PARAMS == 99

\* exitCode while wWinMain has not returned.
NoExit == -1

CERT_STORE_READONLY_FLAG == "CERT_STORE_READONLY_FLAG"
CERT_SYSTEM_STORE_LOCAL_MACHINE == "CERT_SYSTEM_STORE_LOCAL_MACHINE"
CERT_STORE_ADD_REPLACE_EXISTING == "CERT_STORE_ADD_REPLACE_EXISTING"
CERT_STORE_ADD_ALWAYS == "CERT_STORE_ADD_ALWAYS"

-----------------------------------------------------------------------------
(* Strings are sequences of characters. *)

ToLower(ch) ==
    CASE ch = "A" -> "a"
      [] ch = "B" -> "b"
      [] ch = "C" -> "c"
      [] OTHER -> ch

Min(a, b) == IF a < b THEN a ELSE b

\* The first n characters of s, or all of s when it ends earlier.
Prefix(s, n) == SubSeq(s, 1, Min(n, Len(s)))

WcsncmpEqual_UpToShorter(a, b, n) ==
    LET k == Min(n, Min(Len(a), Len(b)))
    IN SubSeq(a, 1, k) = SubSeq(b, 1, k)

WcsncmpEqual_WholeString(a, b, n) == a = b

\* wcsncmp(a, b, n) == 0: the strings agree on their first n characters,
\* where a string that ends earlier only equals one ending at the same place.
WcsncmpEqual(a, b, n) == Prefix(a, n) = Prefix(b, n)

\* CERT_FIND_SUBJECT_STR: case-insensitive substring match of the name
\* within the subject string of the certificate.
SubjectContains(subject, name) ==
    \E i \in 0..(Len(subject) - Len(name)) :
        \A j \in 1..Len(name) : ToLower(subject[i + j]) = ToLower(name[j])

-----------------------------------------------------------------------------
(* Environment: certificates, files, stores *)

NullCert == [id |-> 0, subject |-> <<>>]

\* A certificate is its native identity (issuer and serial number) and its
\* subject name.  CertA and CertAx share the identity; the subjects of CertA
\* and CertB both contain "b".
CertA  == [id |-> 1, subject |-> <<"a", "b">>]
CertAx == [id |-> 1, subject |-> <<"c">>]
CertB  == [id |-> 2, subject |-> <<"B">>]

Certs == {CertA, CertAx, CertB}

NoFile   == [exists |-> FALSE, der |-> FALSE, cert |-> NullCert]
JunkFile == [exists |-> TRUE,  der |-> FALSE, cert |-> NullCert]
DerFile(c) == [exists |-> TRUE, der |-> TRUE, cert |-> c]

\* The file system: what is stored at a path.
FileAt(path) ==
    CASE path = <<"p">> -> DerFile(CertA)
      [] path = <<"q">> -> DerFile(CertAx)
      [] path = <<"r">> -> DerFile(CertB)
      [] path = <<"j">> -> JunkFile
      [] OTHER -> NoFile

ROOT == <<"R", "O", "O", "T">>
CA   == <<"C", "A">>

StoreNames == {ROOT, CA}

NullStore == [name |-> <<>>, flags |-> {}, readonly |-> FALSE]

\* The contents of one store: how many copies of each certificate it holds.
EmptyStore == [c \in Certs |-> 0]

Entries(st) == {c \in Certs : st[c] > 0}

Size(st) == st[CertA] + st[CertAx] + st[CertB]

CopiesOfId(st, id) ==
    LET same == {c \in Certs : c.id = id}
        RECURSIVE Sum(_)
        Sum(S) == IF S = {} THEN 0
                  ELSE LET c == CHOOSE x \in S : TRUE IN st[c] + Sum(S \ {c})
    IN Sum(same)

\* A system store holds at most one certificate per native identity.
WellFormedStore(st) == \A c \in Certs : CopiesOfId(st, c.id) <= 1

-----------------------------------------------------------------------------
(* Command lines *)

ActionTokens == {
    <<"f", "i", "n", "d">>,
    <<"f", "i", "n", "d", "e", "r">>,
    <<"F", "i", "n", "d">>,
    <<"a", "d", "d">>,
    <<"a", "d", "d", "s">>,
    <<"d", "e", "l", "e", "t", "e">>,
    <<"d", "e", "l", "e", "t", "e", "d">>,
    <<"d", "e", "l">> }

ActionDatas == {
    <<"a">>, <<"b">>, <<"a", "b">>, <<"c">>,
    <<"p">>, <<"q">>, <<"r">>, <<"j">> }

ArgChoices(i) ==
    CASE i = 1 -> ActionTokens
      [] i = 2 -> StoreNames
      [] i = 3 -> ActionDatas
      [] OTHER -> {<<"x">>}

\* Every command line of at most MaxArgc arguments.
Tokens == ActionTokens \cup StoreNames \cup ActionDatas \cup {<<"x">>}

CommandLines ==
    UNION { { a \in [1..n -> Tokens] : \A i \in 1..n : a[i] \in ArgChoices(i) } :
            n \in 0..MaxArgc }

\* argv[i]; past the end of the vector the element is the empty string.
Arg(i) == IF i <= Len(argv) THEN argv[i] ELSE <<>>

\* The native calls of one invocation: how often each was made, and how many
\* of the inserts (added) and of the removals (deleted) the store accepted.
NoCalls == [open |-> 0, find |-> 0, fopen |-> 0, decode |-> 0,
            add |-> 0, delete |-> 0, close |-> 0, added |-> 0, deleted |-> 0]

Called(what) == [calls EXCEPT ![what] = @ + 1]

Accepted(what, done) == [calls EXCEPT ![what] = @ + 1, ![done] = @ + 1]

-----------------------------------------------------------------------------
(* The store provider *)

\* CertFindCertificateInStore(store, X509_ASN_ENCODING, 0,
\* CERT_FIND_SUBJECT_STR, commonName, NULL): the entries the search can
\* return.  The enumeration order of a store is not defined, so the first
\* match is any of them; with no match the call returns NULL.
CertFindCertificateInStore(st, commonName) ==
    LET found == {c \in Entries(st) : SubjectContains(c.subject, commonName)}
    IN IF found = {} THEN {NullCert} ELSE found

\* CertAddCertificateContextToStore(store, cert, disposition, NULL): the
\* contents of the store after a successful call.
CertAddCertificateContextToStore(st, c, disposition) ==
    IF disposition = CERT_STORE_ADD_REPLACE_EXISTING
    THEN [x \in Certs |-> IF x = c THEN 1 ELSE IF x.id = c.id THEN 0 ELSE st[x]]
    ELSE [st EXCEPT ![c] = @ + 1]

\* CertDeleteCertificateFromStore(cert): the contents after a successful call.
CertDeleteCertificateFromStore(st, c) == [st EXCEPT ![c] = @ - 1]

\* CertCreateCertificateContext(X509_ASN_ENCODING, memblock, size)
CertCreateCertificateContext(blob) == IF blob.der THEN blob.cert ELSE NullCert

-----------------------------------------------------------------------------
(* The process *)

TypeOK ==
    /\ stores \in [StoreNames -> [Certs -> 0..1]]
    /\ pc \in {"idle", "wWinMain", "selectAction", "CertOpenStore", "checkExists",
               "addCert", "addCert_read", "addCert_parse", "addCert_add",
               "deleteCert", "deleteCert_delete", "exited"}
    /\ argv \in CommandLines
    /\ actionFn \in {"none", "checkExists", "addCert", "deleteCert"}
    /\ additionalOpenFlags \subseteq {CERT_STORE_READONLY_FLAG}
    /\ cert \in Certs \cup {NullCert}
    /\ held \subseteq {"store", "memblock"}
    /\ exitCode \in {NoExit, 0, 1, 2, 3, 4, 5, 6, STATUS_BAD_PARAMS}

Init ==
    /\ stores \in [StoreNames -> [Certs -> 0..1]]
    /\ \A n \in StoreNames : WellFormedStore(stores[n])
    /\ pc = "idle"
    /\ argv = <<>>
    /\ action = <<>>
    /\ storeName = <<>>
    /\ actionData = <<>>
    /\ actionFn = "none"
    /\ additionalOpenFlags = {}
    /\ store = NullStore
    /\ memblock = NoFile
    /\ cert = NullCert
    /\ held = {}
    /\ calls = NoCalls
    /\ exitCode = NoExit
    /\ stores0 = stores
    /\ imported = {}
    /\ deletions = {}

\* return code; from wWinMain, or from the action function wWinMain returns.
Return(code) ==
    /\ exitCode' = code
    /\ pc' = "exited"

\* The operating system starts the tool with a command line.
Invoke ==
    /\ pc = "idle"
    /\ \E cmd \in CommandLines : argv' = cmd
    /\ pc' = "wWinMain"
    /\ UNCHANGED <<stores, action, storeName, actionData, actionFn,
                   additionalOpenFlags, store, memblock, cert, held, calls,
                   exitCode, stores0, imported, deletions>>

\* The process is gone after wWinMain returned; the next one starts afresh.
Terminate ==
    /\ pc = "exited"
    /\ pc' = "idle"
    /\ argv' = <<>>
    /\ action' = <<>>
    /\ storeName' = <<>>
    /\ actionData' = <<>>
    /\ actionFn' = "none"
    /\ additionalOpenFlags' = {}
    /\ store' = NullStore
    /\ memblock' = NoFile
    /\ cert' = NullCert
    /\ held' = {}
    /\ calls' = NoCalls
    /\ exitCode' = NoExit
    /\ stores0' = stores
    /\ UNCHANGED <<stores, imported, deletions>>

TooFewArguments_OffByOne(argc) == argc < 2

\* if (argc < 3)
TooFewArguments(argc) == argc < 3

\* wWinMain: parse arguments.
ParseArguments ==
    /\ pc = "wWinMain"
    /\ IF TooFewArguments(Len(argv))
       THEN /\ Return(STATUS_BAD_PARAMS)
            /\ UNCHANGED <<action, storeName, actionData>>
       ELSE /\ action' = Arg(1)
            /\ storeName' = Arg(2)
            /\ actionData' = Arg(3)
            /\ pc' = "selectAction"
            /\ UNCHANGED exitCode
    /\ UNCHANGED <<stores, argv, actionFn, additionalOpenFlags, store, memblock,
                   cert, held, calls, stores0, imported, deletions>>

\* wWinMain: figure out which action to take.
SelectAction ==
    /\ pc = "selectAction"
    /\ IF WcsncmpEqual(action, <<"f", "i", "n", "d">>, 4)
       THEN /\ actionFn' = "checkExists"
            /\ additionalOpenFlags' = {CERT_STORE_READONLY_FLAG}
            /\ pc' = "CertOpenStore"
            /\ UNCHANGED exitCode
       ELSE IF WcsncmpEqual(action, <<"a", "d", "d">>, 3)
       THEN /\ actionFn' = "addCert"
            /\ pc' = "CertOpenStore"
            /\ UNCHANGED <<additionalOpenFlags, exitCode>>
       ELSE IF WcsncmpEqual(action, <<"d", "e", "l", "e", "t", "e">>, 6)
       THEN /\ actionFn' = "deleteCert"
            /\ pc' = "CertOpenStore"
            /\ UNCHANGED <<additionalOpenFlags, exitCode>>
       ELSE /\ Return(STATUS_BAD_PARAMS)
            /\ UNCHANGED <<actionFn, additionalOpenFlags>>
    /\ UNCHANGED <<stores, argv, action, storeName, actionData, store, memblock,
                   cert, held, calls, stores0, imported, deletions>>

StoreOpenFlags_NoAdditional == {CERT_SYSTEM_STORE_LOCAL_MACHINE}

\* The dwFlags argument of CertOpenStore.
StoreOpenFlags == {CERT_SYSTEM_STORE_LOCAL_MACHINE} \cup additionalOpenFlags

\* CertOpenStore(CERT_STORE_PROV_SYSTEM, ..., 0, flags, name): the handles the
\* call can return; NULL when the store cannot be opened.
CertOpenStore(flags, name) ==
    {NullStore,
     [name |-> name, flags |-> flags,
      readonly |-> CERT_STORE_READONLY_FLAG \in flags]}

OpenFailed_Unchecked(h) == FALSE

\* if (store == NULL)
OpenFailed(h) == h = NullStore

\* wWinMain: open the system store, then call the action function on it.
OpenStore ==
    /\ pc = "CertOpenStore"
    /\ calls' = Called("open")
    /\ \E h \in CertOpenStore(StoreOpenFlags, storeName) :
         /\ store' = h
         /\ IF OpenFailed(h)
            THEN /\ Return(1)
                 /\ UNCHANGED held
            ELSE /\ held' = held \cup {"store"}
                 /\ pc' = actionFn
                 /\ UNCHANGED exitCode
    /\ UNCHANGED <<stores, argv, action, storeName, actionData, actionFn,
                   additionalOpenFlags, memblock, cert, stores0, imported,
                   deletions>>

CheckExistsStatus_Always0(found) == 0

CheckExistsStatus_Swapped(found) == IF found # NullCert THEN 2 ELSE 0

\* checkExists: the status for the result of the search.
CheckExistsStatus(found) == IF found # NullCert THEN 0 ELSE 2

checkExists ==
    /\ pc = "checkExists"
    /\ calls' = Called("find")
    /\ \E found \in CertFindCertificateInStore(stores[store.name], actionData) :
         /\ cert' = found
         /\ Return(CheckExistsStatus(found))
    /\ UNCHANGED <<stores, argv, action, storeName, actionData, actionFn,
                   additionalOpenFlags, store, memblock, held, stores0, imported,
                   deletions>>

IsOpen_Unchecked(certFileName) == TRUE

\* certFile.is_open() after certFile.open(certFileName, ...)
IsOpen(certFileName) == FileAt(certFileName).exists

\* addCert: open the certificate file.
addCert ==
    /\ pc = "addCert"
    /\ calls' = Called("fopen")
    /\ IF ~IsOpen(actionData)
       THEN Return(2)
       ELSE /\ pc' = "addCert_read"
            /\ UNCHANGED exitCode
    /\ UNCHANGED <<stores, argv, action, storeName, actionData, actionFn,
                   additionalOpenFlags, store, memblock, cert, held, stores0,
                   imported, deletions>>

\* addCert: read the certificate file into memory.
addCert_read ==
    /\ pc = "addCert_read"
    /\ memblock' = [FileAt(actionData) EXCEPT !.exists = TRUE]
    /\ held' = held \cup {"memblock"}
    /\ pc' = "addCert_parse"
    /\ UNCHANGED <<stores, argv, action, storeName, actionData, actionFn,
                   additionalOpenFlags, store, cert, calls, exitCode, stores0,
                   imported, deletions>>

ParseFailed_Unchecked(c) == FALSE

\* if (cert == NULL) after CertCreateCertificateContext
ParseFailed(c) == c = NullCert

\* addCert: parse the certificate.
addCert_parse ==
    /\ pc = "addCert_parse"
    /\ calls' = Called("decode")
    /\ cert' = CertCreateCertificateContext(memblock)
    /\ IF ParseFailed(cert')
       THEN Return(3)
       ELSE /\ pc' = "addCert_add"
            /\ UNCHANGED exitCode
    /\ UNCHANGED <<stores, argv, action, storeName, actionData, actionFn,
                   additionalOpenFlags, store, memblock, held, stores0, imported,
                   deletions>>

AddDisposition_Always == CERT_STORE_ADD_ALWAYS

\* The disposition addCert passes to CertAddCertificateContextToStore.
AddDisposition == CERT_STORE_ADD_REPLACE_EXISTING

\* return value of addCert after the certificate was added.
AddCertDone == 5

\* The certificates add has imported, after c went into store name.
Imported(name, c) ==
    LET sameId == {r \in imported : r.store = name /\ r.cert.id = c.id}
        others == {r \in sameId : r.cert # c}
    IN (imported \ sameId)
         \cup {[r EXCEPT !.replaced = TRUE] : r \in others}
         \cup {[store |-> name, cert |-> c, replaced |-> FALSE]}

\* addCert: add the certificate to the store, replacing an existing one.
addCert_add ==
    /\ pc = "addCert_add"
    /\ \E added \in IF store.readonly \/ cert = NullCert THEN {FALSE} ELSE BOOLEAN :
         IF ~added
         THEN /\ calls' = Called("add")
              /\ Return(4)
              /\ UNCHANGED <<stores, imported, deletions>>
         ELSE /\ calls' = Accepted("add", "added")
              /\ stores' = [stores EXCEPT ![store.name] =
                   CertAddCertificateContextToStore(@, cert, AddDisposition)]
              /\ imported' = Imported(store.name, cert)
              /\ deletions' = {r \in deletions : r.store # store.name}
              /\ Return(AddCertDone)
    /\ UNCHANGED <<argv, action, storeName, actionData, actionFn,
                   additionalOpenFlags, store, memblock, cert, held, stores0>>

\* return value of deleteCert when no certificate was found.
DeleteNotFound == 6

DeleteFound_Unchecked(found) == TRUE

\* if (cert) after CertFindCertificateInStore
DeleteFound(found) == found # NullCert

\* deleteCert: look the certificate up.
deleteCert ==
    /\ pc = "deleteCert"
    /\ calls' = Called("find")
    /\ \E found \in CertFindCertificateInStore(stores[store.name], actionData) :
         /\ cert' = found
         /\ IF DeleteFound(found)
            THEN /\ pc' = "deleteCert_delete"
                 /\ UNCHANGED exitCode
            ELSE Return(DeleteNotFound)
    /\ UNCHANGED <<stores, argv, action, storeName, actionData, actionFn,
                   additionalOpenFlags, store, memblock, held, stores0, imported,
                   deletions>>

DeleteFromStore_EveryMatch(st, found, commonName) ==
    [x \in Certs |-> IF SubjectContains(x.subject, commonName) THEN 0 ELSE st[x]]

DeleteFromStore_Nothing(st, found, commonName) == st

\* The store after deleteCert removed the certificate it found.
DeleteFromStore(st, found, commonName) == CertDeleteCertificateFromStore(st, found)

\* The names delete has removed an entry for, after a delete for commonName
\* left the store name with the contents st: the name is recorded with
\* whether another entry that matches it remained.
Deletions(name, commonName, st) ==
    {r \in deletions : ~(r.store = name /\ r.name = commonName)}
        \cup {[store |-> name, name |-> commonName,
               remaining |-> \E c \in Entries(st) :
                                SubjectContains(c.subject, commonName)]}

\* deleteCert: delete the certificate that was found.
deleteCert_delete ==
    /\ pc = "deleteCert_delete"
    /\ \E deleted \in IF store.readonly \/ cert = NullCert THEN {FALSE} ELSE BOOLEAN :
         IF ~deleted
         THEN /\ calls' = Called("delete")
              /\ Return(5)
              /\ UNCHANGED <<stores, imported, deletions>>
         ELSE /\ calls' = Accepted("delete", "deleted")
              /\ stores' = [stores EXCEPT ![store.name] =
                   DeleteFromStore(@, cert, actionData)]
              /\ imported' = {r \in imported :
                                ~(r.store = store.name /\ r.cert = cert)}
              /\ deletions' = Deletions(store.name, actionData, stores'[store.name])
              /\ Return(0)
    /\ UNCHANGED <<argv, action, storeName, actionData, actionFn,
                   additionalOpenFlags, store, memblock, cert, held, stores0>>

Next ==
    \/ Invoke
    \/ Terminate
    \/ ParseArguments
    \/ SelectAction
    \/ OpenStore
    \/ checkExists
    \/ addCert
    \/ addCert_read
    \/ addCert_parse
    \/ addCert_add
    \/ deleteCert
    \/ deleteCert_delete

Spec == Init /\ [][Next]_vars

-----------------------------------------------------------------------------
(* Properties *)

Exited == pc = "exited"

\* CertOpenStore returned a handle in this invocation.
Opened == store # NullStore

\* The entries of a store that a search for the name can return.
Matching(st, name) == {c \in Certs : st[c] > 0 /\ SubjectContains(c.subject, name)}

\* C1: an add invocation exits with status 0 if and only if the import was
\* successful (file readable, decoder accepted it, store accepted the insert).
C1_AddExitsZeroIffImported ==
    (Exited /\ actionFn = "addCert") =>
        (exitCode = 0 <=> calls.added = 1)

\* C2: whenever the store was opened, the store handle has been closed by the
\* time the process returns its exit code.
C2_StoreClosedAtExit ==
    (Exited /\ Opened) => ("store" \notin held /\ calls.close = calls.open)

C4_ReimportIdempotent ==
    (Exited /\ actionFn = "addCert" /\ calls.added = 1) =>
        /\ stores[store.name][cert] = 1
        /\ CopiesOfId(stores[store.name], cert.id) = 1
        /\ stores0[store.name][cert] >= 1 => stores = stores0

C4_Witness ==
    /\ Exited
    /\ actionFn = "addCert"
    /\ calls.added = 1
    /\ stores0[store.name][cert] = 1
    /\ [store |-> store.name, cert |-> cert, replaced |-> FALSE] \in imported
    /\ Size(stores[store.name]) = 2

\* C5 as stated: an add invocation whose certificate file cannot be opened
\* returns 2, calls neither the decoder nor the insert, and leaves the stores
\* as they were.
C5_UnreadableFile_AsStated ==
    (Exited /\ actionFn = "addCert" /\ ~FileAt(actionData).exists) =>
        /\ exitCode = 2
        /\ calls.decode = 0
        /\ calls.add = 0
        /\ stores = stores0

\* C5 as amended: an add invocation that opened the store and whose
\* certificate file cannot be opened returns 2, calls neither the decoder nor
\* the insert, and leaves the stores as they were.
C5_UnreadableFile ==
    (Exited /\ actionFn = "addCert" /\ Opened /\ ~FileAt(actionData).exists) =>
        /\ exitCode = 2
        /\ calls.fopen = 1
        /\ calls.decode = 0
        /\ calls.add = 0
        /\ stores = stores0

C5_Witness ==
    /\ Exited
    /\ actionFn = "addCert"
    /\ Opened
    /\ ~FileAt(actionData).exists
    /\ calls.fopen = 1
    /\ exitCode = 2

\* C6 as stated: an add invocation whose file is readable but is rejected by
\* the decoder returns 3, does not call the insert, and leaves the stores as
\* they were.
C6_MalformedFile_AsStated ==
    (Exited /\ actionFn = "addCert"
        /\ FileAt(actionData).exists /\ ~FileAt(actionData).der) =>
        /\ exitCode = 3
        /\ calls.add = 0
        /\ stores = stores0

\* C6 as amended: an add invocation that opened the store and whose file is
\* readable but is rejected by the decoder returns 3, does not call the
\* insert, and leaves the stores as they were.
C6_MalformedFile ==
    (Exited /\ actionFn = "addCert" /\ Opened
        /\ FileAt(actionData).exists /\ ~FileAt(actionData).der) =>
        /\ exitCode = 3
        /\ calls.decode = 1
        /\ calls.add = 0
        /\ stores = stores0

C6_Witness ==
    /\ Exited
    /\ actionFn = "addCert"
    /\ Opened
    /\ actionData = <<"j">>
    /\ calls.decode = 1
    /\ exitCode = 3

\* C7: a find invocation that opened the store returns 0 exactly when the
\* store holds an entry whose subject matches the name, returns 2 when none
\* matches, and leaves the stores as they were.
C7_Find ==
    (Exited /\ actionFn = "checkExists" /\ Opened) =>
        /\ exitCode = 0 <=> Matching(stores0[storeName], actionData) # {}
        /\ exitCode = 2 <=> Matching(stores0[storeName], actionData) = {}
        /\ stores = stores0

C7_Witness ==
    /\ Exited
    /\ actionFn = "checkExists"
    /\ Opened
    /\ actionData = <<"b">>
    /\ Entries(stores[storeName]) = {CertB}
    /\ exitCode = 0

\* C8: a delete invocation that opened a store holding no entry that matches
\* the name returns 2 or 6, never calls the native removal, and leaves the
\* stores as they were.
C8_DeleteNoMatch ==
    (Exited /\ actionFn = "deleteCert" /\ Opened
        /\ Matching(stores0[storeName], actionData) = {}) =>
        /\ exitCode \in {2, 6}
        /\ calls.delete = 0
        /\ stores = stores0

C8_Witness ==
    /\ Exited
    /\ actionFn = "deleteCert"
    /\ Opened
    /\ Entries(stores0[storeName]) = {CertB}
    /\ actionData = <<"a", "b">>
    /\ exitCode = 6

\* C9: a delete invocation on a store with matching entries whose native
\* removal succeeds removes exactly one matching entry, leaves every other
\* entry of every store in place, and returns 0.
C9_DeleteOne ==
    (Exited /\ actionFn = "deleteCert" /\ calls.deleted = 1) =>
        /\ exitCode = 0
        /\ \E c \in Matching(stores0[storeName], actionData) :
              stores = [stores0 EXCEPT ![storeName][c] = @ - 1]

C9_Witness ==
    /\ Exited
    /\ actionFn = "deleteCert"
    /\ calls.deleted = 1
    /\ Cardinality(Matching(stores0[storeName], actionData)) = 2
    /\ Size(stores[storeName]) = 1
    /\ exitCode = 0

\* C10 as stated: once add has imported a certificate with subject N into a
\* store, every later find invocation for N on that store returns 0, as long
\* as no delete invocation has removed the entry.
C10_AddThenFind_AsStated ==
    (Exited /\ actionFn = "checkExists") =>
        \A r \in imported :
            (r.store = storeName /\ r.cert.subject = actionData) => exitCode = 0

\* C10 as amended: once add has imported a certificate with subject N into a
\* store, every later find invocation for N that opens that store returns 0,
\* as long as no delete invocation has removed the entry and no add
\* invocation has replaced it by a certificate of the same native identity.
C10_AddThenFind ==
    (Exited /\ actionFn = "checkExists" /\ Opened) =>
        \A r \in imported :
            (r.store = storeName /\ r.cert.subject = actionData /\ ~r.replaced)
                => exitCode = 0

C10_Witness ==
    /\ Exited
    /\ actionFn = "checkExists"
    /\ Opened
    /\ actionData = <<"a", "b">>
    /\ [store |-> storeName, cert |-> CertA, replaced |-> FALSE] \in imported
    /\ stores0[storeName][CertA] = 1
    /\ exitCode = 0

\* C11 as stated: a delete invocation for N that returned 0 has removed the
\* certificate from the store, and a later find invocation for N on that
\* store, with no add in between, returns 2.
C11_DeleteThenFind_AsStated ==
    /\ (Exited /\ actionFn = "deleteCert" /\ exitCode = 0) =>
          (stores0[storeName][cert] = 1 /\ stores[storeName][cert] = 0)
    /\ (Exited /\ actionFn = "checkExists") =>
          \A r \in deletions :
              (r.store = storeName /\ r.name = actionData) => exitCode = 2

\* C11 as amended: a delete invocation for N that returned 0 has removed the
\* certificate it found from the store, and a later find invocation for N that
\* opens that store, with no add in between, returns 2 provided no other
\* entry matching N remained in the store after the delete.
C11_DeleteThenFind ==
    /\ (Exited /\ actionFn = "deleteCert" /\ exitCode = 0) =>
          (stores0[storeName][cert] = 1 /\ stores[storeName][cert] = 0)
    /\ (Exited /\ actionFn = "checkExists" /\ Opened) =>
          \A r \in deletions :
              (r.store = storeName /\ r.name = actionData /\ ~r.remaining)
                  => exitCode = 2

C11_Witness ==
    /\ Exited
    /\ actionFn = "checkExists"
    /\ Opened
    /\ actionData = <<"a", "b">>
    /\ [store |-> storeName, name |-> actionData, remaining |-> FALSE] \in deletions
    /\ Entries(stores[storeName]) = {CertB}
    /\ exitCode = 2

\* The token starts with the word.
StartsWith(token, word) ==
    /\ Len(token) >= Len(word)
    /\ \A i \in 1..Len(word) : token[i] = word[i]

FIND   == <<"f", "i", "n", "d">>
ADD    == <<"a", "d", "d">>
DELETE == <<"d", "e", "l", "e", "t", "e">>

\* C12: with 3 or more arguments and an action token that starts with none
\* of "find", "add" and "delete" the exit code is 99, the store is never
\* opened, no operation is invoked and the stores are as they were.
C12_UnknownAction ==
    (pc # "idle" /\ Len(argv) >= 3
        /\ ~StartsWith(argv[1], FIND) /\ ~StartsWith(argv[1], ADD)
        /\ ~StartsWith(argv[1], DELETE)) =>
        /\ calls = NoCalls
        /\ actionFn = "none"
        /\ store = NullStore
        /\ stores = stores0
        /\ pc \in {"wWinMain", "selectAction", "exited"}
        /\ Exited => exitCode = STATUS_BAD_PARAMS

C12_Witness ==
    /\ Exited
    /\ Len(argv) = 3
    /\ argv[1] = <<"d", "e", "l">>
    /\ action = argv[1]
    /\ exitCode = STATUS_BAD_PARAMS

\* C13: every exit code is produced only under the outcome the exit-code
\* table gives for it: 1 store not opened, 3 add could not parse the file,
\* 4 store rejected the insert, 5 store rejected the removal, 6 delete target
\* not found, 99 bad invocation, 0 successful find, add or delete.
C13_ExitCodeTable ==
    Exited =>
        /\ exitCode = 1 => (calls.open = 1 /\ ~Opened)
        /\ exitCode = 3 =>
              (actionFn = "addCert" /\ calls.decode = 1 /\ cert = NullCert)
        /\ exitCode = 4 =>
              (actionFn = "addCert" /\ calls.add = 1 /\ calls.added = 0)
        /\ exitCode = 5 =>
              (actionFn = "deleteCert" /\ calls.delete = 1 /\ calls.deleted = 0)
        /\ exitCode = 6 =>
              (actionFn = "deleteCert" /\ calls.find = 1 /\ cert = NullCert)
        /\ exitCode = STATUS_BAD_PARAMS =>
              (actionFn = "none" /\ calls.open = 0)
        /\ exitCode = 0 =>
              \/ actionFn = "checkExists" /\ cert # NullCert
              \/ actionFn = "addCert" /\ calls.added = 1
              \/ actionFn = "deleteCert" /\ calls.deleted = 1

\* The process is inside one of the three action functions.
InOperation ==
    pc \in {"checkExists", "addCert", "addCert_read", "addCert_parse",
            "addCert_add", "deleteCert", "deleteCert_delete"}

\* A native call of one of the three operations was made.
OperationCalled ==
    calls.find + calls.fopen + calls.decode + calls.add + calls.delete > 0

C15_OpenFailed ==
    /\ (Exited /\ calls.open = 1 /\ ~Opened) =>
          /\ exitCode = 1
          /\ ~OperationCalled
          /\ held = {}
          /\ stores = stores0
    /\ (InOperation \/ OperationCalled) => (Opened /\ calls.open = 1)

C15_Witness ==
    /\ Exited
    /\ actionFn = "deleteCert"
    /\ calls.open = 1
    /\ ~Opened
    /\ Matching(stores[storeName], actionData) # {}
    /\ exitCode = 1

\* C16: the action is selected by case-sensitive prefix match: a token that
\* starts with "find" dispatches to find, with "add" to add, with "delete"
\* to delete, a token dispatches to at most one action, and any other token,
\* such as "Find", is rejected as a bad invocation.
C16_PrefixDispatch ==
    (Len(argv) >= 3 /\ pc \notin {"idle", "wWinMain", "selectAction"}) =>
        /\ action = argv[1]
        /\ actionFn = "checkExists" <=> StartsWith(action, FIND)
        /\ actionFn = "addCert" <=> StartsWith(action, ADD)
        /\ actionFn = "deleteCert" <=> StartsWith(action, DELETE)
        /\ actionFn = "none" <=>
              (Exited /\ exitCode = STATUS_BAD_PARAMS /\ calls.open = 0)
        /\ action = <<"F", "i", "n", "d">> => actionFn = "none"
        /\ Cardinality({w \in {FIND, ADD, DELETE} : StartsWith(action, w)}) <= 1

C16_Witness ==
    /\ Exited
    /\ action = <<"f", "i", "n", "d", "e", "r">>
    /\ actionFn = "checkExists"
    /\ calls.find = 1
    /\ exitCode = 0

\* C17: the certificate blob that add loaded from the file has been released
\* when add returns, on every exit path; none is held at process exit.
C17_BlobReleased ==
    (Exited /\ actionFn = "addCert") => "memblock" \notin held

\* C18: an invocation issues at most one mutating store call and changes the
\* stores by at most one entry: find none, add at most one insert (the store
\* grows by at most 1 and no entry of another native identity changes),
\* delete at most one removal (the store shrinks by at most 1), a bad
\* invocation or a failed open none.
C18_OneMutation ==
    /\ calls.add + calls.delete <= 1
    /\ calls.added <= calls.add
    /\ calls.deleted <= calls.delete
    /\ \A n \in StoreNames : n # storeName => stores[n] = stores0[n]
    /\ actionFn \in {"none", "checkExists"} =>
          (calls.add = 0 /\ calls.delete = 0 /\ stores = stores0)
    /\ (pc # "idle" /\ ~Opened) =>
          (calls.add = 0 /\ calls.delete = 0 /\ stores = stores0)
    /\ actionFn = "addCert" =>
          /\ calls.delete = 0
          /\ calls.added = 0 => stores = stores0
          /\ Size(stores[storeName]) - Size(stores0[storeName]) \in {0, 1}
          /\ \A c \in Certs :
                c.id # cert.id => stores[storeName][c] = stores0[storeName][c]
    /\ actionFn = "deleteCert" =>
          /\ calls.add = 0
          /\ calls.deleted = 0 => stores = stores0
          /\ Size(stores0[storeName]) - Size(stores[storeName]) \in {0, 1}
          /\ \A c \in Certs : stores[storeName][c] <= stores0[storeName][c]

C18_Witness ==
    /\ Exited
    /\ actionFn = "addCert"
    /\ calls.added = 1
    /\ stores0[storeName][CertAx] = 1
    /\ stores0[storeName][CertB] = 1
    /\ cert = CertA
    /\ Entries(stores[storeName]) = {CertA, CertB}

====
